---- MODULE Spec2Model ----
(***************************************************************************)
(* A model of comapp.py, the SMILES <-> IUPAC batch converter: the two     *)
(* validators, validate_input_list, the two-step PubChem lookup            *)
(* (process_single_smiles_to_iupac / process_single_iupac_to_smiles),      *)
(* batch_convert over a ThreadPoolExecutor, create_csv_output, and the two  *)
(* request handlers (batch_convert_route, upload_csv).                     *)
(*                                                                         *)
(* Python strings are TLA+ strings; every other Python value is a record   *)
(* tagged by its type in the field py, so that None, str, int, list and    *)
(* dict stay distinct values.                                              *)
(***************************************************************************)
EXTENDS Integers, Sequences, FiniteSets, TLC

VARIABLES
    pc,              \* where the request's thread is: idle, submit, drain, sleep, returned, done
    caller,          \* who called batch_convert: a request handler, or a direct call
    form,            \* the request's parameters
    input_list,      \* batch_convert's input_list
    conversion_func, \* batch_convert's conversion_func
    max_workers,     \* batch_convert's max_workers
    future_to_input, \* batch_convert's dict, by future: the item submitted for it
    futures,         \* by future: its state in the executor and in its lookup call
    yielded,         \* the futures as_completed has yielded
    results,         \* batch_convert's results
    response,        \* what the handler returned, None before
    vfn,        \* a function applied on its own: its name ("none" before)
    varg,       \* its first argument (a string, or a list of outcomes)
    vtype,      \* its second argument (an input_type, or a conversion_type)
    vret        \* the value it returned

vvars == <<vfn, varg, vtype, vret>>
bvars == <<pc, caller, form, input_list, conversion_func, max_workers,
           future_to_input, futures, yielded, results, response>>
vars == <<bvars, vvars>>

-----------------------------------------------------------------------------
(* Python values *)

None == [py |-> "None"]
PyStr(s) == [py |-> "str", s |-> s]
PyInt(n) == [py |-> "int", n |-> n]
PyList(l) == [py |-> "list", items |-> l]
PyDict(f) == [py |-> "dict", fields |-> f]

\* Python's truth value of a value: None, "", 0, [] and {} are false.
Truthy(x) ==
    CASE x.py = "None" -> FALSE
      [] x.py = "str"  -> x.s # ""
      [] x.py = "int"  -> x.n # 0
      [] x.py = "list" -> x.items # <<>>
      [] x.py = "dict" -> DOMAIN x.fields # {}

\* The i-th character of a string, as a string of length 1.
CharAt(s, i) == SubSeq(s, i, i)

-----------------------------------------------------------------------------
(* Character classes *)

Upper == {"A","B","C","D","E","F","G","H","I","J","K","L","M",
          "N","O","P","Q","R","S","T","U","V","W","X","Y","Z"}
Lower == {"a","b","c","d","e","f","g","h","i","j","k","l","m",
          "n","o","p","q","r","s","t","u","v","w","x","y","z"}
Digit == {"0","1","2","3","4","5","6","7","8","9"}

\* The character class of validate_smiles' pattern:
\* [A-Za-z0-9@+\-\[\]\(\)\\\/%=#\.]
SmilesClass == Upper \cup Lower \cup Digit \cup
    {"@", "+", "-", "[", "]", "(", ")", "\\", "/", "%", "=", "#", "."}

\* str.isalpha on one character (of the modelled, ASCII, characters).
isalpha(c) == c \in Upper \cup Lower

\* The characters str.strip() removes.
Whitespace == {" ", "\t", "\n", "\r"}

-----------------------------------------------------------------------------
(* str.strip and str.split *)

\* The positions of s, in increasing order, whose character is in (is not in)
\* a set of characters.
PositionsIn(s, chars) ==
    SelectSeq([i \in 1..Len(s) |-> i], LAMBDA i : CharAt(s, i) \in chars)

PositionsNotIn(s, chars) ==
    SelectSeq([i \in 1..Len(s) |-> i], LAMBDA i : CharAt(s, i) \notin chars)

\* s.strip(): from the first to the last character that is not whitespace.
strip(s) ==
    LET keep == PositionsNotIn(s, Whitespace)
    IN  IF keep = <<>> THEN "" ELSE SubSeq(s, keep[1], keep[Len(keep)])

\* s.split('\n'): the pieces between the newlines, empty pieces included.
\* nl is the increasing sequence of the positions of the newlines; piece k
\* runs from after newline k-1 to before newline k.
split(s) ==
    LET nl == PositionsIn(s, {"\n"})
    IN  [k \in 1..(Len(nl) + 1) |->
            SubSeq(s, IF k = 1 THEN 1 ELSE nl[k - 1] + 1,
                      IF k = Len(nl) + 1 THEN Len(s) ELSE nl[k] - 1)]

-----------------------------------------------------------------------------
(* validate_smiles, validate_iupac *)

\* The position after the longest prefix of s whose characters are all in
\* the class: where [...]+ stops.
ClassRun(s) ==
    LET stops == PositionsNotIn(s, SmilesClass)
    IN  IF stops = <<>> THEN Len(s) + 1 ELSE stops[1]

\* Python's $ (no MULTILINE flag) at position i of s: the end of the string,
\* or just before a newline that is the last character.
DollarAt(s, i) ==
    \/ i = Len(s) + 1
    \/ i = Len(s) /\ CharAt(s, i) = "\n"

\* re.match(r'^[...]+$', s) is not None: one or more class characters from
\* the start, then $.  No class character is a newline, so only the longest
\* run can be followed by $.
re_match(s) ==
    LET e == ClassRun(s)
    IN  e > 1 /\ DollarAt(s, e)

MinSmilesLen == 2

validate_smiles(smiles) ==
    IF smiles = "" \/ Len(smiles) < MinSmilesLen THEN FALSE
    ELSE re_match(smiles)

\* any(c.isalpha() for c in s)
AnyAlpha(s) == \E i \in 1..Len(s) : isalpha(CharAt(s, i))

MinIupacLen == 3

validate_iupac_short(iupac_name) ==
    IF iupac_name = "" \/ Len(iupac_name) < MinIupacLen - 1 THEN FALSE
    ELSE AnyAlpha(iupac_name)

validate_iupac(iupac_name) ==
    IF iupac_name = "" \/ Len(iupac_name) < MinIupacLen THEN FALSE
    ELSE AnyAlpha(iupac_name)

-----------------------------------------------------------------------------
(* validate_input_list *)

MaxBatch == 100

\* [line.strip() for line in pieces if line.strip()]
StripNonBlank(pieces) ==
    SelectSeq([i \in 1..Len(pieces) |-> strip(pieces[i])], LAMBDA l : l # "")

\* the loop over lines: smiles lines go through validate_smiles, every other
\* input_type through validate_iupac
FilterValidOnce(lines, input_type) ==
    LET valid == SelectSeq([i \in 1..Len(lines) |-> i],
                   LAMBDA i : /\ IF input_type = "smiles" THEN validate_smiles(lines[i])
                                 ELSE validate_iupac(lines[i])
                              /\ \A j \in 1..(i - 1) : lines[j] # lines[i])
    IN  [k \in 1..Len(valid) |-> lines[valid[k]]]

FilterValid(lines, input_type) ==
    SelectSeq(lines, LAMBDA l : IF input_type = "smiles" THEN validate_smiles(l)
                                ELSE validate_iupac(l))

\* The pair a parser returns: (list, None) or (None, message).
Parsed(list, error) == [list |-> list, error |-> error]

validate_input_list_filter_first(input_text, input_type) ==
    LET lines == StripNonBlank(split(input_text))
        valid_lines == FilterValid(lines, input_type)
    IN  IF lines = <<>> THEN Parsed(None, PyStr("No valid input provided"))
        ELSE IF valid_lines = <<>>
             THEN Parsed(None, PyStr("No valid inputs found"))
        ELSE IF Len(valid_lines) > MaxBatch
             THEN Parsed(None, PyStr("Maximum 100 compounds per batch allowed"))
        ELSE Parsed(PyList(valid_lines), None)

validate_input_list(input_text, input_type) ==
    LET lines == StripNonBlank(split(input_text))
        valid_lines == FilterValid(lines, input_type)
    IN  IF lines = <<>> THEN Parsed(None, PyStr("No valid input provided"))
        ELSE IF Len(lines) > MaxBatch
             THEN Parsed(None, PyStr("Maximum 100 compounds per batch allowed"))
        ELSE IF valid_lines = <<>>
             THEN Parsed(None, PyStr("No valid inputs found"))
        ELSE Parsed(PyList(valid_lines), None)

\* The trimmed non-blank lines of a text, and a line's passing the validator
\* of an input type, for the claims.
TrimmedLines(text) == StripNonBlank(split(text))

PassesDirection(line, input_type) ==
    IF input_type = "smiles" THEN validate_smiles(line) ELSE validate_iupac(line)

-----------------------------------------------------------------------------
(* The PubChem service, as the lookup functions see it *)

\* What requests.post / requests.get gives: a response with a status code and
\* a body, or an exception (connection fault, timeout) with a message.
Http(status, body) == [status |-> status, body |-> body]
Raised(msg) == [exc |-> msg]

\* A body response.json() cannot decode.
Undecodable == [py |-> "undecodable"]

HTTP_OK == 200

TypeName(x) == IF x.py = "None" THEN "NoneType" ELSE x.py

\* The three ways a block of the lookup's try body ends.
Return(outcome) == [kind |-> "return", value |-> outcome]
Raise(msg) == [kind |-> "raise", msg |-> msg]
Continue(cid) == [kind |-> "continue", cid |-> cid]

Outcome(input, output, error) == [input |-> input, output |-> output, error |-> error]

NoAttribute(x, attr) ==
    Raise("'" \o TypeName(x) \o "' object has no attribute '" \o attr \o "'")

\* d.get(key, default) on a dict d
DictGet(d, key, default) ==
    IF key \in DOMAIN d.fields THEN d.fields[key] ELSE default

EmptyDict == PyDict(<<>>)

\* x[0]: the first element of a list, the first character of a string; a
\* dict decoded from JSON has no key 0, and None and int are not subscriptable.
\* Only applied to a truthy x.
SubscriptLast(x) ==
    CASE x.py = "list" -> Continue(x.items[Len(x.items)])
      [] x.py = "str"  -> Continue(PyStr(CharAt(x.s, Len(x.s))))
      [] x.py = "dict" -> Raise("0")
      [] OTHER         -> Raise("'" \o TypeName(x) \o "' object is not subscriptable")

Subscript0(x) ==
    CASE x.py = "list" -> Continue(x.items[1])
      [] x.py = "str"  -> Continue(PyStr(CharAt(x.s, 1)))
      [] x.py = "dict" -> Raise("0")
      [] OTHER         -> Raise("'" \o TypeName(x) \o "' object is not subscriptable")

\* response.json(), then data.get(outer, {}).get(inner, []): the value, or
\* the exception of the first step that fails.
JsonPath(resp, outer, inner) ==
    IF resp.body = Undecodable
    THEN Raise("Expecting value: line 1 column 1 (char 0)")
    ELSE IF resp.body.py # "dict" THEN NoAttribute(resp.body, "get")
    ELSE LET mid == DictGet(resp.body, outer, EmptyDict)
         IN  IF mid.py # "dict" THEN NoAttribute(mid, "get")
             ELSE Continue(DictGet(mid, inner, PyList(<<>>)))

\* The texts in which the two lookup functions differ.
LabelsUnavailableSwapped(func) ==
    IF func = "process_single_smiles_to_iupac"
    THEN [empty |-> "Empty SMILES string", property |-> "IUPACName",
          failed |-> "Failed to get IUPAC name: ",
          unavailable |-> "SMILES not available"]
    ELSE [empty |-> "Empty IUPAC name", property |-> "CanonicalSMILES",
          failed |-> "Failed to get SMILES: ",
          unavailable |-> "IUPAC name not available"]

Labels(func) ==
    IF func = "process_single_smiles_to_iupac"
    THEN [empty |-> "Empty SMILES string", property |-> "IUPACName",
          failed |-> "Failed to get IUPAC name: ",
          unavailable |-> "IUPAC name not available"]
    ELSE [empty |-> "Empty IUPAC name", property |-> "CanonicalSMILES",
          failed |-> "Failed to get SMILES: ",
          unavailable |-> "SMILES not available"]

\* The start of a lookup call, up to the first request: the argument is
\* stripped (a value that is no string has no strip) and an empty one returns
\* at once; otherwise the first request goes out for the stripped item.
LookupBeginFirstCharacter(func, arg) ==
    IF arg.py # "str" THEN NoAttribute(arg, "strip")
    ELSE LET item == PyStr(CharAt(strip(arg.s), 1))
         IN  IF ~Truthy(item)
             THEN Return(Outcome(item, None, PyStr(Labels(func).empty)))
             ELSE Continue(item)

LookupBegin(func, arg) ==
    IF arg.py # "str" THEN NoAttribute(arg, "strip")
    ELSE LET item == PyStr(strip(arg.s))
         IN  IF ~Truthy(item)
             THEN Return(Outcome(item, None, PyStr(Labels(func).empty)))
             ELSE Continue(item)

\* From the first response to the second request: status check, decoding,
\* the identifier list, its first element.
LookupStep1(func, item, resp) ==
    IF "exc" \in DOMAIN resp THEN Raise(resp.exc)
    ELSE IF resp.status # HTTP_OK
    THEN Return(Outcome(item, None, PyStr("API error: " \o ToString(resp.status))))
    ELSE LET cids == JsonPath(resp, "IdentifierList", "CID")
         IN  IF cids.kind = "raise" THEN cids
             ELSE IF ~Truthy(cids.cid)
             THEN Return(Outcome(item, None, PyStr("No compound found")))
             ELSE Subscript0(cids.cid)

\* The end of a lookup: an empty or missing property value is an error, any
\* other value is the output.
PropertyOutcomeUnchecked(func, item, value) == Return(Outcome(item, value, None))

PropertyOutcome(func, item, value) ==
    IF ~Truthy(value)
    THEN Return(Outcome(item, None, PyStr(Labels(func).unavailable)))
    ELSE Return(Outcome(item, value, None))

\* From the second response to the return.
LookupStep2(func, item, resp) ==
    IF "exc" \in DOMAIN resp THEN Raise(resp.exc)
    ELSE IF resp.status # HTTP_OK
    THEN Return(Outcome(item, None,
                 PyStr(Labels(func).failed \o ToString(resp.status))))
    ELSE LET properties == JsonPath(resp, "PropertyTable", "Properties")
         IN  IF properties.kind = "raise" THEN properties
             ELSE IF ~Truthy(properties.cid)
             THEN Return(Outcome(item, None, PyStr("No properties found")))
             ELSE LET first == Subscript0(properties.cid)
                  IN  IF first.kind = "raise" THEN first
                      ELSE IF first.cid.py # "dict" THEN NoAttribute(first.cid, "get")
                      ELSE PropertyOutcome(func, item,
                             DictGet(first.cid, Labels(func).property, None))

\* except Exception as e: the outcome for the local variable's current value
\* (the stripped item once strip has run, the argument before).
CaughtPropagates(item, r) == r

Caught(item, r) ==
    IF r.kind = "raise"
    THEN Return(Outcome(item, None, PyStr("Error: " \o r.msg)))
    ELSE r

-----------------------------------------------------------------------------
(* parse_csv_file, create_csv_output, the statistics *)

\* The loop of parse_csv_file over the compounds pandas extracted: each is
\* stripped, and kept when it is not empty and passes its type's validator.
FilterCompounds(compounds, input_type) ==
    SelectSeq([i \in 1..Len(compounds) |-> strip(compounds[i])],
              LAMBDA c : /\ c # ""
                         /\ \/ input_type = "smiles" /\ validate_smiles(c)
                            \/ input_type = "iupac" /\ validate_iupac(c))

\* content is what pandas makes of the file: the column's strings, or the
\* exception read_csv raises.
parse_csv_file(content, input_type) ==
    IF "exc" \in DOMAIN content
    THEN Parsed(None, PyStr("Error parsing CSV file: " \o content.exc))
    ELSE LET valid_compounds == FilterCompounds(content.compounds, input_type)
         IN  IF valid_compounds = <<>>
             THEN Parsed(None, PyStr("No valid compounds found in CSV file"))
             ELSE IF Len(valid_compounds) > MaxBatch
             THEN Parsed(None, PyStr("Maximum 100 compounds per batch allowed"))
             ELSE Parsed(PyList(valid_compounds), None)

\* The field csv.writer writes for a value: None as the empty field, a string
\* as it is, any other value through str().
CsvField(x) ==
    IF x.py = "None" THEN ""
    ELSE IF x.py = "str" THEN x.s
    ELSE IF x.py = "int" THEN ToString(x.n)
    ELSE TypeName(x)

\* x or '', as the csv writer writes it
OrEmpty(x) == IF ~Truthy(x) THEN "" ELSE CsvField(x)

CsvRowIsNotNone(result) ==
    <<CsvField(result.input), OrEmpty(result.output),
      IF result.output # None THEN "Success" ELSE "Failed",
      OrEmpty(result.error)>>

CsvRow(result) ==
    <<CsvField(result.input), OrEmpty(result.output),
      IF Truthy(result.output) THEN "Success" ELSE "Failed",
      OrEmpty(result.error)>>

\* The rows the writer is given, the header first.
create_csv_output_reversed(rs, conversion_type) ==
    LET header == IF conversion_type = PyStr("smiles_to_iupac")
                  THEN <<"SMILES", "IUPAC_Name", "Status", "Error">>
                  ELSE <<"IUPAC_Name", "SMILES", "Status", "Error">>
    IN  <<header>> \o [i \in 1..Len(rs) |-> CsvRow(rs[Len(rs) + 1 - i])]

create_csv_output(rs, conversion_type) ==
    LET header == IF conversion_type = PyStr("smiles_to_iupac")
                  THEN <<"SMILES", "IUPAC_Name", "Status", "Error">>
                  ELSE <<"IUPAC_Name", "SMILES", "Status", "Error">>
    IN  <<header>> \o [i \in 1..Len(rs) |-> CsvRow(rs[i])]

StatisticsDistinctFailed(rs) ==
    LET successful == Cardinality({i \in 1..Len(rs) : rs[i].output # None})
    IN  [total |-> Len(rs), successful |-> successful,
         failed |-> Cardinality({rs[i] : i \in {j \in 1..Len(rs) : rs[j].output = None}})]

\* sum(1 for r in results if r['output'] is not None), and the rest
Statistics(rs) ==
    LET successful == Cardinality({i \in 1..Len(rs) : rs[i].output # None})
    IN  [total |-> Len(rs), successful |-> successful,
         failed |-> Len(rs) - successful]

Failure(error) == [success |-> FALSE, error |-> error]

Success(rs, conversion_type) ==
    [success |-> TRUE, results |-> rs,
     csv_data |-> create_csv_output(rs, conversion_type),
     statistics |-> Statistics(rs)]

\* filename.rsplit('.', 1)[1].lower() in {'csv', 'txt'}
UpperSeq == <<"A","B","C","D","E","F","G","H","I","J","K","L","M",
              "N","O","P","Q","R","S","T","U","V","W","X","Y","Z">>
LowerSeq == <<"a","b","c","d","e","f","g","h","i","j","k","l","m",
              "n","o","p","q","r","s","t","u","v","w","x","y","z">>

LowerChar(c) ==
    IF c \in Upper THEN LowerSeq[CHOOSE i \in 1..26 : UpperSeq[i] = c] ELSE c

RECURSIVE lower(_)
lower(s) == IF s = "" THEN "" ELSE LowerChar(CharAt(s, 1)) \o lower(Tail(s))

allowed_file(filename) ==
    LET dots == PositionsIn(filename, {"."})
    IN  /\ dots # <<>>
        /\ lower(SubSeq(filename, dots[Len(dots)] + 1, Len(filename))) \in {"csv", "txt"}

-----------------------------------------------------------------------------
(* The requests and calls the model makes *)

RECURSIVE JoinRange(_, _, _)
JoinRange(lines, a, b) ==
    IF a = b THEN lines[a]
    ELSE LET m == (a + b) \div 2
         IN  JoinRange(lines, a, m) \o "\n" \o JoinRange(lines, m + 1, b)

\* the lines of a text joined by newlines
Join(lines) == IF lines = <<>> THEN "" ELSE JoinRange(lines, 1, Len(lines))

Repeat(line, n) == [i \in 1..n |-> line]

MaxItems == 3
DefaultWorkers == 3

\* "CC" passes validate_smiles only, "a b" validate_iupac only, "abc" both,
\* "**" neither.
RouteTexts ==
    {" \n", "**", "CC", "a b", "CC\nCC", "CC \n\n a b", "abc\nCC",
     "CCO\nCC(=O)O",
     Join(Repeat("CC", MaxBatch + 1)),
     Join(<<"CC">> \o Repeat("**", MaxBatch)),
     Join(<<"CC">> \o Repeat("**", MaxBatch - 1))}

\* A form with the given parameters; None stands for a parameter left out.
FormOf(conversion_type, input_type, input_text) ==
    LET given == [conversion_type |-> conversion_type, input_type |-> input_type,
                  input_text |-> input_text]
    IN  PyDict([k \in {x \in DOMAIN given : given[x] # None} |-> given[k]])

ConversionTypes == {None, PyStr("smiles_to_iupac"), PyStr("iupac_to_smiles")}

RouteForms ==
    {FormOf(ct, it, tx) :
        ct \in ConversionTypes,
        it \in {None, PyStr("smiles"), PyStr("iupac")},
        tx \in {None} \cup {PyStr(x) : x \in RouteTexts}}

UploadContents ==
    {[compounds |-> cs] :
        cs \in {<<>>, <<" CC">>, <<"a b", " CC">>, <<"abc", "abc">>,
                Repeat("CC", MaxBatch + 1),
                <<"CC">> \o Repeat("**", MaxBatch)}}
    \cup {[exc |-> "No columns to parse from file"]}

\* An upload: the file's name and content, None when no file came with it.
UploadFiles ==
    {None} \cup {[filename |-> "", content |-> [compounds |-> <<>>]],
                 [filename |-> "a.exe", content |-> [compounds |-> <<"CC">>]]}
           \cup {[filename |-> "a.CSV", content |-> c] : c \in UploadContents}

LookupArgs == {None, PyStr(" "), PyStr(" CC\n")}
ConversionFuncs == {"process_single_smiles_to_iupac", "process_single_iupac_to_smiles"}

\* What a stub conversion_func may do with an item: return an outcome, raise.
StubResults(item) ==
    {Return(Outcome(item, PyStr("ok"), None)),
     Return(Outcome(item, None, PyStr("failed"))),
     Raise("boom")}

\* What the service may answer to the first and to the second request.
Step1Responses ==
    {Raised("Connection timed out"),
     Raised(""),
     Http(404, Undecodable),
     Http(HTTP_OK, Undecodable),
     Http(HTTP_OK, PyList(<<>>)),
     Http(HTTP_OK, EmptyDict),
     Http(HTTP_OK, PyDict([IdentifierList |-> PyDict([CID |-> PyList(<<>>)])])),
     Http(HTTP_OK, PyDict([IdentifierList |-> PyDict([CID |-> PyInt(702)])])),
     Http(HTTP_OK, PyDict([IdentifierList |->
                             PyDict([CID |-> PyList(<<PyInt(702), PyInt(5)>>)])]))}

PropertyTable(props) == PyDict([PropertyTable |-> PyDict([Properties |-> props])])

Step2Responses(property) ==
    {Raised("Connection timed out"),
     Http(500, Undecodable),
     Http(HTTP_OK, Undecodable),
     Http(HTTP_OK, EmptyDict),
     Http(HTTP_OK, PropertyTable(PyList(<<EmptyDict>>))),
     Http(HTTP_OK, PropertyTable(PyList(<<PyDict([x \in {property} |-> PyStr("")])>>))),
     Http(HTTP_OK, PropertyTable(PyList(<<PyDict([x \in {property} |-> PyStr("ethanol")])>>)))}

-----------------------------------------------------------------------------
(* The request handlers, up to the call of batch_convert *)

Handlers == {"batch_convert_route", "upload_csv"}

\* What a handler decides before any lookup: to answer with an error, or to
\* run batch_convert on a list with a lookup function.
Answer(error) == [answer |-> error]
Run(items, func) == [run |-> items, func |-> func]

\* if conversion_type == 'smiles_to_iupac': ... else: ...
Dispatch(conversion_type) ==
    IF conversion_type = PyStr("smiles_to_iupac")
    THEN "process_single_smiles_to_iupac"
    ELSE "process_single_iupac_to_smiles"

batch_convert_route_begin(f) ==
    LET conversion_type == DictGet(f, "conversion_type", None)
        input_text == strip(DictGet(f, "input_text", PyStr("")).s)
        input_type == DictGet(f, "input_type", PyStr("smiles")).s
        parsed == validate_input_list(input_text, input_type)
    IN  IF input_text = "" THEN Answer(PyStr("Please enter input text"))
        ELSE IF Truthy(parsed.error) THEN Answer(parsed.error)
        ELSE Run([i \in 1..Len(parsed.list.items) |-> PyStr(parsed.list.items[i])],
                 Dispatch(conversion_type))

upload_csv_begin(f, file) ==
    LET conversion_type == DictGet(f, "conversion_type", None)
        input_type == IF conversion_type = PyStr("smiles_to_iupac")
                      THEN "smiles" ELSE "iupac"
    IN  IF file = None THEN Answer(PyStr("No file uploaded"))
        ELSE IF file.filename = "" THEN Answer(PyStr("No file selected"))
        ELSE IF ~allowed_file(file.filename) THEN Answer(PyStr("Invalid file type"))
        ELSE LET parsed == parse_csv_file(file.content, input_type)
             IN  IF Truthy(parsed.error) THEN Answer(parsed.error)
                 ELSE Run([i \in 1..Len(parsed.list.items) |->
                              PyStr(parsed.list.items[i])],
                          Dispatch(conversion_type))

-----------------------------------------------------------------------------
(* batch_convert on the executor *)

\* A future, with the history of its lookup call: the requests the call has
\* issued (sent), and the answers they got (resp1, resp2).
NewFuture == [state |-> "pending", item |-> None, cid |-> None,
              fault |-> None, res |-> None,
              sent |-> <<>>, resp1 |-> None, resp2 |-> None]

\* requests.post / requests.get of step 1 (for the item) or step 2 (for an
\* identifier).
HttpRequest(step, arg) == [step |-> step, arg |-> arg]

RunningStates == {"stub", "step1", "step2"}
Running == {i \in 1..Len(futures) : futures[i].state \in RunningStates}
Pending == {i \in 1..Len(futures) : futures[i].state = "pending"}
Finished == {i \in 1..Len(futures) : futures[i].state = "finished"}
Yielded == {yielded[k] : k \in 1..Len(yielded)}

\* The executor runs at most max_workers work items at a time.
PoolUnbounded == TRUE

PoolHasIdleWorker == Cardinality(Running) < max_workers

\* The call of batch_convert(items, func, max_workers=k): results = [], the
\* executor is made, the submissions begin.
Call(who, f, items, func, k) ==
    /\ caller' = who
    /\ form' = f
    /\ input_list' = items
    /\ conversion_func' = func
    /\ max_workers' = k
    /\ pc' = "submit"
    /\ UNCHANGED <<future_to_input, futures, yielded, results, response>>

Respond(who, f, error) ==
    /\ caller' = who
    /\ form' = f
    /\ response' = Failure(error)
    /\ pc' = "done"
    /\ UNCHANGED <<input_list, conversion_func, max_workers, future_to_input,
                   futures, yielded, results>>

BatchConvertRoute(f) ==
    /\ pc = "idle"
    /\ LET d == batch_convert_route_begin(f)
       IN  IF "answer" \in DOMAIN d
           THEN Respond("batch_convert_route", f, d.answer)
           ELSE Call("batch_convert_route", f, d.run, d.func, DefaultWorkers)
    /\ UNCHANGED vvars

UploadCsv(f, file) ==
    /\ pc = "idle"
    /\ LET d == upload_csv_begin(f, file)
           req == [form |-> f, file |-> file]
       IN  IF "answer" \in DOMAIN d
           THEN Respond("upload_csv", req, d.answer)
           ELSE Call("upload_csv", req, d.run, d.func, DefaultWorkers)
    /\ UNCHANGED vvars

\* batch_convert called on its own, with a stub or a lookup function.
DirectCall(items, func, k) ==
    /\ pc = "idle"
    /\ Call("batch_convert", None, items, func, k)
    /\ UNCHANGED vvars

\* executor.submit(conversion_func, item) for the next item of input_list; the
\* loop over the completions starts when the dict is complete.
Submit ==
    /\ pc = "submit"
    /\ IF Len(futures) < Len(input_list)
       THEN /\ futures' = Append(futures, NewFuture)
            /\ future_to_input' = Append(future_to_input, input_list[Len(futures) + 1])
            /\ pc' = pc
       ELSE /\ pc' = "drain"
            /\ UNCHANGED <<futures, future_to_input>>
    /\ UNCHANGED <<caller, form, input_list, conversion_func, max_workers,
                   yielded, results, response, vvars>>

\* A future's state after a block of the lookup: finished with the outcome the
\* block returned or the except clause made, or waiting for the next response
\* (for the second one, with the identifier the request was made for).
AfterBlock(fut, item, r, next) ==
    LET c == Caught(item, r)
        fault == IF r.kind = "raise" THEN PyStr(r.msg) ELSE fut.fault
    IN  IF c.kind = "continue"
        THEN [fut EXCEPT !.state = next, !.item = item,
                         !.cid = IF next = "step2" THEN c.cid ELSE fut.cid,
                         !.sent = Append(@, HttpRequest(IF next = "step1" THEN 1 ELSE 2,
                                                        c.cid))]
        ELSE [fut EXCEPT !.state = "finished", !.item = item, !.fault = fault,
                         !.res = c]

WorkerUnchanged ==
    UNCHANGED <<pc, caller, form, input_list, conversion_func, max_workers,
                future_to_input, yielded, results, response, vvars>>

\* A worker takes the oldest pending work item and calls conversion_func: a
\* lookup function runs up to its first request.
WorkerStart(i) ==
    /\ i \in Pending
    /\ \A j \in Pending : i <= j
    /\ PoolHasIdleWorker
    /\ futures' =
         [futures EXCEPT ![i] =
            IF conversion_func = "stub" THEN [@ EXCEPT !.state = "stub"]
            ELSE LET r == LookupBegin(conversion_func, future_to_input[i])
                 IN  AfterBlock(@, IF r.kind = "raise" THEN future_to_input[i]
                                   ELSE IF r.kind = "return" THEN r.value.input
                                   ELSE r.cid,
                                r, "step1")]
    /\ WorkerUnchanged

\* The stub returns or raises; the future keeps either.
StubEnds(i, r) ==
    /\ i \in 1..Len(futures)
    /\ futures[i].state = "stub"
    /\ futures' = [futures EXCEPT ![i] = [@ EXCEPT !.state = "finished", !.res = r]]
    /\ WorkerUnchanged

\* The first request ends (a response, or an exception of requests).
Step1Ends(i, resp) ==
    /\ i \in 1..Len(futures)
    /\ futures[i].state = "step1"
    /\ futures' = [futures EXCEPT ![i] =
                     AfterBlock([@ EXCEPT !.resp1 = resp], @.item,
                                LookupStep1(conversion_func, @.item, resp), "step2")]
    /\ WorkerUnchanged

\* The second request ends.
Step2Ends(i, resp) ==
    /\ i \in 1..Len(futures)
    /\ futures[i].state = "step2"
    /\ futures' = [futures EXCEPT ![i] =
                     AfterBlock([@ EXCEPT !.resp2 = resp], @.item,
                                LookupStep2(conversion_func, @.item, resp), "none")]
    /\ WorkerUnchanged

MainUnchanged ==
    UNCHANGED <<caller, form, input_list, conversion_func, max_workers,
                future_to_input, futures, response, vvars>>

\* as_completed yields a finished future whose result() returns: the result
\* is appended, and the thread sleeps.
DrainResult(i) ==
    /\ pc = "drain"
    /\ i \in Finished \ Yielded
    /\ futures[i].res.kind = "return"
    /\ results' = Append(results, futures[i].res.value)
    /\ yielded' = Append(yielded, i)
    /\ pc' = "sleep"
    /\ MainUnchanged

\* except Exception as e: the outcome made for the future's input item.
ExceptionDropped(i) == results

ExceptionOutcomeByPosition(i) ==
    Append(results, Outcome(input_list[Len(results) + 1], None,
                            PyStr("Processing error: " \o futures[i].res.msg)))

ExceptionOutcome(i) ==
    Append(results, Outcome(future_to_input[i], None,
                            PyStr("Processing error: " \o futures[i].res.msg)))

\* The loop goes on after the except clause.
PcAbort == "raised"

PcAfterException == "drain"

\* as_completed yields a finished future whose result() raises.
DrainException(i) ==
    /\ pc = "drain"
    /\ i \in Finished \ Yielded
    /\ futures[i].res.kind = "raise"
    /\ results' = ExceptionOutcome(i)
    /\ yielded' = Append(yielded, i)
    /\ pc' = PcAfterException
    /\ MainUnchanged

\* time.sleep(delay) ends (delay is the default 0.5: the sleep does not raise).
Wake ==
    /\ pc = "sleep"
    /\ pc' = "drain"
    /\ UNCHANGED <<yielded, results>>
    /\ MainUnchanged

\* Every future was yielded: the executor shuts down and batch_convert
\* returns results.
BatchReturns ==
    /\ pc = "drain"
    /\ Yielded = 1..Len(futures)
    /\ pc' = "returned"
    /\ UNCHANGED <<yielded, results>>
    /\ MainUnchanged

\* The handler's answer after batch_convert: the CSV and the statistics.
HandlerResponds ==
    /\ pc = "returned"
    /\ caller \in Handlers
    /\ response' = Success(results,
                     DictGet(IF caller = "upload_csv" THEN form.form ELSE form,
                             "conversion_type", None))
    /\ pc' = "done"
    /\ UNCHANGED <<caller, form, input_list, conversion_func, max_workers,
                   future_to_input, futures, yielded, results, vvars>>

-----------------------------------------------------------------------------
(* The specifications *)

IdleValidate ==
    /\ vfn = "none"
    /\ varg = ""
    /\ vtype = "smiles"
    /\ vret = None

Init ==
    /\ pc = "idle"
    /\ caller = "none"
    /\ form = None
    /\ input_list = <<>>
    /\ conversion_func = "none"
    /\ max_workers = 0
    /\ future_to_input = <<>>
    /\ futures = <<>>
    /\ yielded = <<>>
    /\ results = <<>>
    /\ response = None
    /\ IdleValidate

\* The lists a stub is run on: A, B, A, ... of every length up to MaxItems.
StubLists ==
    {[i \in 1..n |-> IF i % 2 = 1 THEN PyStr("A") ELSE PyStr("B")] : n \in 0..MaxItems}

\* The requests and calls are made from the idle state only.
WhenIdle(S) == IF pc = "idle" THEN S ELSE {}

Request ==
    \/ \E f \in WhenIdle(RouteForms) : BatchConvertRoute(f)
    \/ \E ct \in WhenIdle(ConversionTypes), file \in UploadFiles :
          UploadCsv(FormOf(ct, None, None), file)

Direct ==
    \/ \E items \in WhenIdle(StubLists), k \in 1..DefaultWorkers :
          DirectCall(items, "stub", k)
    \/ \E arg \in WhenIdle(LookupArgs), func \in ConversionFuncs :
          DirectCall(<<arg>>, func, DefaultWorkers)

Main ==
    \/ Submit
    \/ \E i \in 1..Len(futures) : DrainResult(i)
    \/ \E i \in 1..Len(futures) : DrainException(i)
    \/ Wake
    \/ BatchReturns
    \/ HandlerResponds

\* The steps of the executor's workers.
Workers ==
    \/ \E i \in 1..Len(futures) : WorkerStart(i)
    \/ \E i \in 1..Len(futures) :
          \E r \in StubResults(future_to_input[i]) : StubEnds(i, r)
    \/ \E i \in 1..Len(futures) : \E resp \in Step1Responses : Step1Ends(i, resp)
    \/ \E i \in 1..Len(futures) :
          \E resp \in Step2Responses(Labels(conversion_func).property) :
              Step2Ends(i, resp)

Next == Request \/ Direct \/ Main \/ Workers

Spec == Init /\ [][Next]_vars

\* The scheduler does not stop the request's thread for ever while it can take
\* a step, nor all the workers while one of them can; every request has a
\* 20 s timeout, so a lookup that waits for a response gets one.
Fairness == WF_vars(Main) /\ WF_vars(Workers)

FairSpec == Spec /\ Fairness

-----------------------------------------------------------------------------
(* Claims about batch_convert, the lookups and the handlers *)

BatchReturned == pc = "returned" \/ (pc = "done" /\ response.success)

\* C1: when batch_convert returns, results has exactly one entry per item of
\* input_list: every future was yielded once, none dropped, none twice, however
\* each call of the lookup function ended (returned or raised).
C1_OutcomeCount ==
    BatchReturned =>
        /\ Len(results) = Len(input_list)
        /\ Len(yielded) = Len(input_list)
        /\ Yielded = 1..Len(input_list)

\* batch_convert returned, with the default three workers, the outcomes of
\* three items of which one raised and one returned.
C1_Witness ==
    /\ pc = "returned"
    /\ max_workers = 3
    /\ Len(input_list) = 3
    /\ Len(results) = 3
    /\ \E i, j \in 1..3 : futures[i].res.kind = "raise" /\ futures[j].res.kind = "return"

ExactlyOnePopulated(o) ==
    \/ Truthy(o.output) /\ o.error = None
    \/ o.output = None /\ o.error.py = "str" /\ o.error.s # ""

\* C2: every outcome a lookup function returned, and every outcome
\* batch_convert made for a future that raised, has either a non-empty output
\* and error None, or output None and a non-empty error string.
C2_ExactlyOne ==
    /\ conversion_func \in ConversionFuncs =>
          \A i \in Finished :
              futures[i].res.kind = "return" => ExactlyOnePopulated(futures[i].res.value)
    /\ \A k \in 1..Len(results) :
          (conversion_func \in ConversionFuncs \/ futures[yielded[k]].res.kind = "raise")
              => ExactlyOnePopulated(results[k])

\* A lookup function's success and its "not available" error were collected
\* in one batch.
C2_Witness ==
    /\ conversion_func \in ConversionFuncs
    /\ \E j, k \in 1..Len(results) :
          /\ results[j].output = PyStr("ethanol") /\ results[j].error = None
          /\ results[k].output = None
          /\ results[k].error \in {PyStr("IUPAC name not available"),
                                   PyStr("SMILES not available")}

\* C3: a lookup call always returns an outcome and never raises, whatever
\* its argument and whatever the service does at either step; a fault inside
\* it gives output None and the error "Error: <message>".
C3_LookupTotal ==
    conversion_func \in ConversionFuncs =>
        \A i \in Finished :
            /\ futures[i].res.kind = "return"
            /\ futures[i].fault # None =>
                  /\ futures[i].res.value.output = None
                  /\ futures[i].res.value.error = PyStr("Error: " \o futures[i].fault.s)

\* A lookup whose second request timed out returned the Error outcome.
C3_Witness ==
    /\ conversion_func \in ConversionFuncs
    /\ \E i \in Finished :
          /\ futures[i].cid # None
          /\ futures[i].fault = PyStr("Connection timed out")
          /\ futures[i].res = Return(Outcome(futures[i].item, None,
                                             PyStr("Error: Connection timed out")))

\* C4: at most max_workers lookup calls have started and not finished.
C4_BoundedConcurrency == Cardinality(Running) <= max_workers

\* Every worker is busy and an item waits in the queue.
C4_Witness ==
    /\ max_workers >= 2
    /\ Cardinality(Running) = max_workers
    /\ Pending # {}

\* C5: once batch_convert is called, every item's lookup is run and its
\* outcome collected, and batch_convert returns, whichever items end in an
\* error outcome or raise.
C5_NoPartialAbort ==
    (pc = "submit")
        ~> (/\ pc \in {"returned", "done"}
            /\ Yielded = 1..Len(input_list)
            /\ \A i \in 1..Len(input_list) : futures[i].state = "finished"
            /\ Len(results) = Len(input_list))

\* batch_convert returned after the first future it took had raised and a
\* later one had returned.
C5_Witness ==
    /\ pc = "returned"
    /\ Len(yielded) >= 2
    /\ futures[yielded[1]].res.kind = "raise"
    /\ futures[yielded[Len(yielded)]].res.kind = "return"

NoLookupStarted == futures = <<>> /\ future_to_input = <<>> /\ results = <<>>

\* The text of a batch_convert_route request fails list validation: no line,
\* more than 100 lines, or no line valid for the input type.
RouteInputFails ==
    LET lines == TrimmedLines(DictGet(form, "input_text", PyStr("")).s)
        input_type == DictGet(form, "input_type", PyStr("smiles")).s
    IN  \/ Len(lines) = 0
        \/ Len(lines) > 100
        \/ \A i \in 1..Len(lines) : ~PassesDirection(lines[i], input_type)

\* The file of an upload_csv request fails parse_csv_file's validation.
UploadInputFails ==
    /\ form.file # None
    /\ form.file.filename # ""
    /\ allowed_file(form.file.filename)
    /\ \/ "exc" \in DOMAIN form.file.content
       \/ LET valid == FilterCompounds(form.file.content.compounds,
                          IF DictGet(form.form, "conversion_type", None)
                               = PyStr("smiles_to_iupac")
                          THEN "smiles" ELSE "iupac")
          IN  Len(valid) = 0 \/ Len(valid) > 100

\* C6: when a request's list validation fails, the handler answers with the
\* failure and no lookup is submitted or run for the request; and a handler
\* that answered with a failure has started none.
C6_InputErrorsBeforeNetwork ==
    /\ (caller = "batch_convert_route" /\ RouteInputFails) =>
          pc = "done" /\ ~response.success /\ NoLookupStarted
    /\ (caller = "upload_csv" /\ UploadInputFails) =>
          pc = "done" /\ ~response.success /\ NoLookupStarted
    /\ (caller \in Handlers /\ pc = "done" /\ ~response.success) => NoLookupStarted

\* A text of 101 lines, one of them valid, was refused and no lookup started.
C6_Witness ==
    /\ caller = "batch_convert_route"
    /\ pc = "done"
    /\ response = Failure(PyStr("Maximum 100 compounds per batch allowed"))
    /\ Len(FilterValid(TrimmedLines(DictGet(form, "input_text", PyStr("")).s),
                       DictGet(form, "input_type", PyStr("smiles")).s)) = 1
    /\ NoLookupStarted

\* C7: the statistics of a batch satisfy successful + failed = total, total is
\* the number of outcomes batch_convert returned and of items submitted, and
\* neither count is negative.
C7_Statistics ==
    (pc = "done" /\ response.success) =>
        LET s == response.statistics
        IN  /\ s.successful + s.failed = s.total
            /\ s.total = Len(results)
            /\ s.total = Len(input_list)
            /\ s.successful >= 0
            /\ s.failed >= 0
            /\ s.failed = Cardinality({k \in 1..Len(results) : results[k].output = None})

\* A batch of two equal items in which both lookups failed the same way.
C7_Witness ==
    /\ pc = "done"
    /\ response.success
    /\ response.statistics = [total |-> 2, successful |-> 0, failed |-> 2]
    /\ results[1] = results[2]

-----------------------------------------------------------------------------
(* The validation harness: the inputs the validators are applied to *)

MaxLen == 3
MaxLines == 3

Chars == {"C", "1", "=", "*", "\n", " "}

RECURSIVE StringsOfLen(_)
StringsOfLen(n) ==
    IF n = 0 THEN {""}
    ELSE {s \o c : s \in StringsOfLen(n - 1), c \in Chars}

SampleStrings == {"CCO", "ethanol", "ab", "12345", "CC(=O)O", "C1=CC=CC=C1",
                  "acetic acid", "CCO*", "CCO\n"}

StringInputs == UNION {StringsOfLen(n) : n \in 0..MaxLen} \cup SampleStrings

LineSamples == {"", " ", "CCO", "**", "ab", " a*c\r"}
FillerLines == {"**", "CCO", "ab"}

ShortTexts == {Join(ls) : ls \in UNION {[1..n -> LineSamples] : n \in 0..MaxLines}}
LongTexts == {Join(<<h>> \o Repeat(f, n)) :
                 h \in LineSamples, f \in FillerLines,
                 n \in {MaxBatch - 1, MaxBatch, MaxBatch + 1}}

TextInputs == ShortTexts \cup LongTexts
InputTypes == {"smiles", "iupac", "name"}

InitValidate ==
    /\ pc = "idle"
    /\ caller = "none"
    /\ form = None
    /\ input_list = <<>>
    /\ conversion_func = "none"
    /\ max_workers = 0
    /\ future_to_input = <<>>
    /\ futures = <<>>
    /\ yielded = <<>>
    /\ results = <<>>
    /\ response = None
    /\ vfn = "none"
    /\ varg \in StringInputs \cup TextInputs
    /\ vtype \in InputTypes
    /\ vret = None

CallValidateSmiles ==
    /\ vfn = "none"
    /\ vfn' = "validate_smiles"
    /\ vret' = validate_smiles(varg)
    /\ UNCHANGED <<varg, vtype, bvars>>

CallValidateIupac ==
    /\ vfn = "none"
    /\ vfn' = "validate_iupac"
    /\ vret' = validate_iupac(varg)
    /\ UNCHANGED <<varg, vtype, bvars>>

CallValidateInputList ==
    /\ vfn = "none"
    /\ vfn' = "validate_input_list"
    /\ vret' = validate_input_list(varg, vtype)
    /\ UNCHANGED <<varg, vtype, bvars>>

NextValidate == CallValidateSmiles \/ CallValidateIupac \/ CallValidateInputList

SpecValidate == InitValidate /\ [][NextValidate]_vars

-----------------------------------------------------------------------------
(* Claims about the validators *)

\* The permitted structure-string alphabet, as the claim lists it.
PermittedAlphabet == Upper \cup Lower \cup Digit \cup
    {"@", "+", "-", "[", "]", "(", ")", "\\", "/", "%", "=", "#", "."}

AllPermitted(s) == \A i \in 1..Len(s) : CharAt(s, i) \in PermittedAlphabet

\* C8: validate_smiles(s) is true if and only if s has at least 2 characters
\* and every character of s, the last one included, is in the permitted
\* alphabet.
C8_SmilesIff ==
    vfn = "validate_smiles" => (vret <=> (Len(varg) >= 2 /\ AllPermitted(varg)))

\* C9: validate_iupac(s) is true if and only if s has at least 3 characters
\* and at least one of them is alphabetic; "ethanol" is accepted, "ab" and
\* "12345" are rejected.
C9_IupacIff ==
    /\ vfn = "validate_iupac" =>
          (vret <=> (Len(varg) >= 3 /\
                     \E i \in 1..Len(varg) : CharAt(varg, i) \in Upper \cup Lower))
    /\ vfn = "validate_iupac" /\ varg = "ethanol" => vret = TRUE
    /\ vfn = "validate_iupac" /\ varg \in {"ab", "12345"} => vret = FALSE

\* validate_iupac has accepted a three-character string with a letter in it
\* and rejected a two-letter one.
C9_Witness ==
    /\ vfn = "validate_iupac"
    /\ \/ varg = "1C=" /\ vret = TRUE
       \/ varg = "ab" /\ vret = FALSE

\* C10: validate_input_list reports EmptyInput when no trimmed non-blank line
\* remains, else TooManyItems when more than 100 remain (counted before the
\* per-item filter), else NoValidItems when none passes the direction's
\* validator; on every error the returned list is None.
C10_ErrorPrecedence ==
    vfn = "validate_input_list" =>
        LET lines == TrimmedLines(varg)
            nvalid == Cardinality({i \in 1..Len(lines) :
                                      PassesDirection(lines[i], vtype)})
        IN  /\ Len(lines) = 0 =>
                 vret = Parsed(None, PyStr("No valid input provided"))
            /\ Len(lines) > 100 =>
                 vret = Parsed(None, PyStr("Maximum 100 compounds per batch allowed"))
            /\ (Len(lines) \in 1..100 /\ nvalid = 0) =>
                 vret = Parsed(None, PyStr("No valid inputs found"))
            /\ (Len(lines) \in 1..100 /\ nvalid > 0) => vret.error = None
            /\ vret.error # None => vret.list = None

\* 101 non-blank lines of which none is valid were rejected as TooManyItems.
C10_Witness ==
    /\ vfn = "validate_input_list"
    /\ Len(TrimmedLines(varg)) = 101
    /\ \A i \in 1..101 : ~PassesDirection(TrimmedLines(varg)[i], vtype)
    /\ vret = Parsed(None, PyStr("Maximum 100 compounds per batch allowed"))

\* The k-th smallest element of a set of numbers.
Kth(S, k) == CHOOSE i \in S : Cardinality({j \in S : j <= i}) = k

\* C11: when validate_input_list succeeds the error is None and the list is
\* the trimmed non-blank lines that pass the direction's validator, in their
\* order, none omitted, duplicates kept: 1 to 100 elements, each trimmed and
\* valid.
C11_FilteredSubsequence ==
    (vfn = "validate_input_list" /\ vret.list # None) =>
        LET lines == TrimmedLines(varg)
            valid == {i \in 1..Len(lines) : PassesDirection(lines[i], vtype)}
            out == vret.list.items
        IN  /\ vret.error = None
            /\ Len(out) \in 1..100
            /\ Len(out) = Cardinality(valid)
            /\ \A k \in 1..Len(out) :
                  /\ out[k] = lines[Kth(valid, k)]
                  /\ out[k] # ""
                  /\ CharAt(out[k], 1) \notin Whitespace
                  /\ CharAt(out[k], Len(out[k])) \notin Whitespace
                  /\ PassesDirection(out[k], vtype)

\* A list was returned that keeps a line twice and leaves out an invalid line
\* of the text.
C11_Witness ==
    /\ vfn = "validate_input_list"
    /\ vret.list # None
    /\ Len(vret.list.items) >= 2
    /\ vret.list.items[1] = vret.list.items[2]
    /\ Len(TrimmedLines(varg)) > Len(vret.list.items)

-----------------------------------------------------------------------------
(* create_csv_output applied to lists of outcomes *)

MaxOutcomes == 2

\* Outcomes of every shape: an output, an error, an empty output, an empty
\* input.
SampleOutcomes ==
    {Outcome(PyStr("CCO"), PyStr("ethanol"), None),
     Outcome(PyStr("xyz"), None, PyStr("No compound found")),
     Outcome(PyStr("CC"), PyStr(""), None),
     Outcome(PyStr("ethanol"), PyStr("CCO"), None),
     Outcome(PyStr(""), None, PyStr("Empty SMILES string"))}

OutcomeLists == UNION {[1..n -> SampleOutcomes] : n \in 0..MaxOutcomes}

InitRender ==
    /\ pc = "idle"
    /\ caller = "none"
    /\ form = None
    /\ input_list = <<>>
    /\ conversion_func = "none"
    /\ max_workers = 0
    /\ future_to_input = <<>>
    /\ futures = <<>>
    /\ yielded = <<>>
    /\ results = <<>>
    /\ response = None
    /\ vfn = "none"
    /\ varg \in OutcomeLists
    /\ vtype \in ConversionTypes
    /\ vret = None

CallCreateCsvOutput ==
    /\ vfn = "none"
    /\ vfn' = "create_csv_output"
    /\ vret' = create_csv_output(varg, vtype)
    /\ UNCHANGED <<varg, vtype, bvars>>

CallStatistics ==
    /\ vfn = "none"
    /\ vfn' = "statistics"
    /\ vret' = Statistics(varg)
    /\ UNCHANGED <<varg, vtype, bvars>>

NextRender == CallCreateCsvOutput \/ CallStatistics

SpecRender == InitRender /\ [][NextRender]_vars

\* C12: create_csv_output emits one header row and then one row per outcome,
\* in the order of the outcomes; the header is SMILES, IUPAC_Name, Status,
\* Error for smiles_to_iupac and IUPAC_Name, SMILES, Status, Error for
\* iupac_to_smiles; the first field of row i is the input of outcome i.
C12_CsvRows ==
    vfn = "create_csv_output" =>
        /\ Len(vret) = 1 + Len(varg)
        /\ vtype = PyStr("smiles_to_iupac") =>
              vret[1] = <<"SMILES", "IUPAC_Name", "Status", "Error">>
        /\ vtype = PyStr("iupac_to_smiles") =>
              vret[1] = <<"IUPAC_Name", "SMILES", "Status", "Error">>
        /\ \A i \in 1..Len(varg) :
              /\ Len(vret[i + 1]) = 4
              /\ vret[i + 1][1] = varg[i].input.s

\* Two outcomes with different inputs were rendered for iupac_to_smiles.
C12_Witness ==
    /\ vfn = "create_csv_output"
    /\ vtype = PyStr("iupac_to_smiles")
    /\ Len(varg) = 2
    /\ varg[1].input # varg[2].input
    /\ vret[2][1] = "ethanol"
    /\ vret[3][1] = "xyz"

\* The text a row shows for an output or an error that may be absent.
Shown(x) == IF x = None THEN "" ELSE x.s

\* C13: in every row Status is "Success" if and only if the outcome's output
\* is non-empty and "Failed" otherwise, and an absent output or error is the
\* empty field; (CCO, ethanol, None) gives CCO, ethanol, Success, "" and
\* (xyz, None, No compound found) gives xyz, "", Failed, No compound found.
C13_StatusField ==
    vfn = "create_csv_output" =>
        \A i \in 1..Len(varg) :
            LET o == varg[i]
                row == vret[i + 1]
            IN  /\ row[3] = IF o.output # None /\ o.output.s # ""
                             THEN "Success" ELSE "Failed"
                /\ row[2] = Shown(o.output)
                /\ row[4] = Shown(o.error)
                /\ o = Outcome(PyStr("CCO"), PyStr("ethanol"), None) =>
                      row = <<"CCO", "ethanol", "Success", "">>
                /\ o = Outcome(PyStr("xyz"), None, PyStr("No compound found")) =>
                      row = <<"xyz", "", "Failed", "No compound found">>

\* The two outcomes of the claim, and one with an empty output, were rendered.
C13_Witness ==
    /\ vfn = "create_csv_output"
    /\ \E i, j \in 2..Len(vret) :
          /\ vret[i] = <<"CCO", "ethanol", "Success", "">>
          /\ vret[j] \in {<<"xyz", "", "Failed", "No compound found">>,
                           <<"CC", "", "Failed", "">>}

-----------------------------------------------------------------------------
(* Claims about the lookup protocol, the draining loop and the handlers *)

\* The lookup calls that have ended, when the batch runs a lookup function.
LookupsDone == IF conversion_func \in ConversionFuncs THEN Finished ELSE {}

IsHttp(resp) == "status" \in DOMAIN resp
Succeeded(resp) == IsHttp(resp) /\ resp.status = 200

\* sub occurs in s
Contains(s, sub) ==
    \E k \in 1..(Len(s) - Len(sub) + 1) : SubSeq(s, k, k + Len(sub) - 1) = sub

\* The list at body[outer][inner] of a decoded response is missing or empty.
NoneListed(resp, outer, inner) ==
    /\ IsHttp(resp)
    /\ resp.body.py = "dict"
    /\ \/ outer \notin DOMAIN resp.body.fields
       \/ /\ resp.body.fields[outer].py = "dict"
          /\ \/ inner \notin DOMAIN resp.body.fields[outer].fields
             \/ resp.body.fields[outer].fields[inner] = PyList(<<>>)

\* The value of a property in the first entry of a response's property list;
\* None when the response has no such value.
ListedProperty(resp, property) ==
    IF /\ IsHttp(resp)
       /\ resp.body.py = "dict"
       /\ "PropertyTable" \in DOMAIN resp.body.fields
       /\ resp.body.fields.PropertyTable.py = "dict"
       /\ "Properties" \in DOMAIN resp.body.fields.PropertyTable.fields
       /\ resp.body.fields.PropertyTable.fields.Properties.py = "list"
       /\ resp.body.fields.PropertyTable.fields.Properties.items # <<>>
       /\ property \in
             DOMAIN resp.body.fields.PropertyTable.fields.Properties.items[1].fields
    THEN resp.body.fields.PropertyTable.fields.Properties.items[1].fields[property]
    ELSE None

\* C14: each failure of a lookup call gives output None and its message: a
\* step-1 status other than 200 "API error: <code>", a step-1 success without
\* identifiers "No compound found", a step-2 status other than 200 an error
\* with the code in it, a step-2 success without a property list "No
\* properties found", an empty property value "IUPAC name not available" or
\* "SMILES not available"; a non-empty property value is the output, with
\* error None.
C14_ErrorMessages ==
    \A i \in LookupsDone :
        LET f == futures[i]
            o == f.res.value
            property == IF conversion_func = "process_single_smiles_to_iupac"
                        THEN "IUPACName" ELSE "CanonicalSMILES"
            unavailable == IF conversion_func = "process_single_smiles_to_iupac"
                           THEN "IUPAC name not available" ELSE "SMILES not available"
            Fails(msg) == o.output = None /\ o.error = PyStr(msg)
        IN  /\ (IsHttp(f.resp1) /\ f.resp1.status # 200) =>
                  Fails("API error: " \o ToString(f.resp1.status))
            /\ (Succeeded(f.resp1) /\ NoneListed(f.resp1, "IdentifierList", "CID")) =>
                  Fails("No compound found")
            /\ (IsHttp(f.resp2) /\ f.resp2.status # 200) =>
                  /\ o.output = None
                  /\ o.error.py = "str"
                  /\ Contains(o.error.s, ToString(f.resp2.status))
            /\ (Succeeded(f.resp2) /\ NoneListed(f.resp2, "PropertyTable", "Properties")) =>
                  Fails("No properties found")
            /\ (Succeeded(f.resp2) /\ ListedProperty(f.resp2, property) = PyStr("")) =>
                  Fails(unavailable)
            /\ (Succeeded(f.resp2) /\ Truthy(ListedProperty(f.resp2, property))) =>
                  o.output = ListedProperty(f.resp2, property) /\ o.error = None

\* In one batch a lookup ended on a 404 at step 1 and another on an empty
\* property value at step 2.
C14_Witness ==
    \E i, j \in LookupsDone :
        /\ futures[i].resp1 = Http(404, Undecodable)
        /\ futures[i].res.value.error = PyStr("API error: 404")
        /\ Succeeded(futures[j].resp2)
        /\ ListedProperty(futures[j].resp2, Labels(conversion_func).property) = PyStr("")
        /\ futures[j].res.value.output = None

\* C15: when the loop takes a future whose call raised, it appends exactly one
\* outcome, with the item submitted for that future as input, output None and
\* the error "Processing error: <message>"; the outcomes collected before stay
\* as they were, and batch_convert goes on (the exception does not leave it).
C15_ProcessingError ==
    [][\A i \in 1..Len(futures) :
          (i \notin Yielded /\ i \in Yielded' /\ futures[i].res.kind = "raise") =>
              /\ Len(results') = Len(results) + 1
              /\ SubSeq(results', 1, Len(results)) = results
              /\ results'[Len(results')] =
                    Outcome(input_list[i], None,
                            PyStr("Processing error: " \o futures[i].res.msg))
              /\ pc' \in {"drain", "sleep"}
              /\ futures' = futures]_vars

\* The future of the first item raised and was taken second, after an outcome
\* of another item had been collected.
C15_Witness ==
    /\ Len(results) >= 2
    /\ yielded[2] = 1
    /\ futures[1].res.kind = "raise"
    /\ results[2] = Outcome(input_list[1], None, PyStr("Processing error: boom"))
    /\ results[1].input = input_list[2]
    /\ input_list[1] # input_list[2]

\* C16: after every outcome the loop appends to results, from a returned
\* result or from a raised exception alike, it sleeps for the delay before it
\* takes the next completion.
C16_SleepAfterEveryOutcome ==
    [][Len(results') > Len(results) => pc' = "sleep"]_vars

\* The first identifier a step-1 response lists; None when it lists none.
FirstIdentifier(resp) ==
    IF /\ IsHttp(resp)
       /\ resp.body.py = "dict"
       /\ "IdentifierList" \in DOMAIN resp.body.fields
       /\ resp.body.fields.IdentifierList.py = "dict"
       /\ "CID" \in DOMAIN resp.body.fields.IdentifierList.fields
       /\ resp.body.fields.IdentifierList.fields.CID.py = "list"
       /\ resp.body.fields.IdentifierList.fields.CID.items # <<>>
    THEN resp.body.fields.IdentifierList.fields.CID.items[1]
    ELSE None

\* The number of requests of a step a call has issued.
Issued(f, step) == Cardinality({k \in 1..Len(f.sent) : f.sent[k].step = step})

\* C17: a lookup call issues at most one step-1 and at most one step-2
\* request; the step-2 request comes after step 1 answered 200 with at least
\* one identifier and is made for the first identifier listed; when step 1
\* fails (an exception, another status, no identifier) there is no step-2
\* request.
C17_TwoStepProtocol ==
    conversion_func \in ConversionFuncs =>
        \A i \in 1..Len(futures) :
            LET f == futures[i]
            IN  /\ Issued(f, 1) <= 1
                /\ Issued(f, 2) <= 1
                /\ Issued(f, 2) = 1 =>
                      /\ f.sent[1] = HttpRequest(1, f.item)
                      /\ Succeeded(f.resp1)
                      /\ FirstIdentifier(f.resp1) # None
                      /\ f.sent[2] = HttpRequest(2, FirstIdentifier(f.resp1))
                /\ (f.resp1 # None /\ (~Succeeded(f.resp1) \/ FirstIdentifier(f.resp1) = None))
                      => Issued(f, 2) = 0
                /\ f.resp2 # None => Issued(f, 2) = 1

\* Step 1 listed two identifiers, step 2 was asked for the first of them and
\* timed out, and the call ended without another request.
C17_Witness ==
    /\ conversion_func \in ConversionFuncs
    /\ \E i \in Finished :
          /\ FirstIdentifier(futures[i].resp1) = PyInt(702)
          /\ Len(futures[i].resp1.body.fields.IdentifierList.fields.CID.items) = 2
          /\ futures[i].sent = <<HttpRequest(1, futures[i].item), HttpRequest(2, PyInt(702))>>
          /\ futures[i].resp2 = Raised("Connection timed out")

\* How many times x occurs in a sequence.
Count(seq, x) == Cardinality({k \in 1..Len(seq) : seq[k] = x})

ResultInputs == [k \in 1..Len(results) |-> results[k].input]

\* The outcomes of the batch CCO, CC(=O)O in which CCO resolved to ethanol
\* and CC(=O)O was not found.
ExampleOutcomes ==
    {Outcome(PyStr("CCO"), PyStr("ethanol"), None),
     Outcome(PyStr("CC(=O)O"), None, PyStr("No compound found"))}

\* C18: when batch_convert returns the batch of a request validated by
\* validate_input_list, the inputs of the outcomes are the submitted items,
\* each as often as it was submitted, in whatever order the lookups
\* completed; for CCO, CC(=O)O with CCO resolved to ethanol and CC(=O)O not
\* found the statistics are total 2, successful 1, failed 1.
C18_InputsPreserved ==
    (caller = "batch_convert_route" /\ BatchReturned) =>
        /\ \A k \in 1..Len(input_list) :
              Count(ResultInputs, input_list[k]) = Count(input_list, input_list[k])
        /\ \A k \in 1..Len(results) :
              Count(input_list, results[k].input) = Count(ResultInputs, results[k].input)
        /\ (pc = "done" /\ {results[k] : k \in 1..Len(results)} = ExampleOutcomes) =>
              response.statistics = [total |-> 2, successful |-> 1, failed |-> 1]

\* The batch CCO, CC(=O)O was answered with the outcome of CC(=O)O first.
C18_Witness ==
    /\ caller = "batch_convert_route"
    /\ pc = "done"
    /\ input_list = <<PyStr("CCO"), PyStr("CC(=O)O")>>
    /\ response.success
    /\ results = <<Outcome(PyStr("CC(=O)O"), None, PyStr("No compound found")),
                   Outcome(PyStr("CCO"), PyStr("ethanol"), None)>>
    /\ response.statistics = [total |-> 2, successful |-> 1, failed |-> 1]

\* The number of data rows of a CSV whose Status field is the given one.
RowsWithStatus(rows, status) ==
    Cardinality({k \in 2..Len(rows) : rows[k][3] = status})

\* C19: in every answer of a request handler the CSV and the statistics
\* agree: as many rows say Success as statistics.successful counts, as many
\* say Failed as statistics.failed counts.
C19_CsvAgreesWithStatistics ==
    (caller \in Handlers /\ pc = "done" /\ response.success) =>
        /\ RowsWithStatus(response.csv_data, "Success") = response.statistics.successful
        /\ RowsWithStatus(response.csv_data, "Failed") = response.statistics.failed
        /\ Len(response.csv_data) = 1 + response.statistics.total

\* A handler answered a batch in which the service gave an empty property
\* value for one item and a name for another.
C19_Witness ==
    /\ caller \in Handlers
    /\ pc = "done"
    /\ response.success
    /\ response.statistics = [total |-> 2, successful |-> 1, failed |-> 1]
    /\ \E i \in 1..Len(futures) :
          /\ Succeeded(futures[i].resp2)
          /\ ListedProperty(futures[i].resp2, Labels(conversion_func).property) = PyStr("")
    /\ RowsWithStatus(response.csv_data, "Failed") = 1

\* The form of the request a handler is serving.
RequestForm == IF caller = "upload_csv" THEN form.form ELSE form

\* C20: in both handlers every item submitted to
\* process_single_smiles_to_iupac has passed validate_smiles and every item
\* submitted to process_single_iupac_to_smiles has passed validate_iupac,
\* whatever the parameters of a request that names its conversion_type, an
\* omitted input_type included.
C20_SingleDirection ==
    (caller \in Handlers /\ DictGet(RequestForm, "conversion_type", None) # None) =>
        \A i \in 1..Len(future_to_input) :
            /\ conversion_func = "process_single_smiles_to_iupac" =>
                  validate_smiles(future_to_input[i].s)
            /\ conversion_func = "process_single_iupac_to_smiles" =>
                  validate_iupac(future_to_input[i].s)

====
